---------------------------- MODULE Spec2Model ----------------------------
(***************************************************************************)
(* Model of src/backend/fastapi_app/setup_postgres_seeddata.py: main()     *)
(* creates an engine, seed_data(engine) checks that the items table        *)
(* exists, loads seed_data.json into it inside one session (skip a record  *)
(* whose id is already there, INSERT the others, commit once, absorb an    *)
(* IntegrityError raised by the commit), runs a nearest-neighbour query    *)
(* in a second session, and main() disposes the engine.                    *)
(*                                                                         *)
(* Spec    : the script against a reliable store that nobody else writes.  *)
(*           The operator may run the script again (Restart).              *)
(* SpecEnv : one run of the script, with another writer inserting rows     *)
(*           and with the connection failing at any round trip.            *)
(***************************************************************************)
EXTENDS Integers, Sequences, FiniteSets

\* ------------------------------------------------------------------ bounds
MaxLen == 2
MaxId == 3
MaxRuns == 2

Ids == 1..MaxId

\* ------------------------------------------------------- program constants
\* "LIMIT 2" of the verification query.
Limit == 2

\* ------------------------------------------------------------------ inputs
\* (embedding_ada002, embedding_nomic) pairs a seed record may carry.
SeedEmbeddings ==
    { << <<1, 0>>, <<0, 1>> >>,
      << <<-1, 1>>, <<1, 0>> >> }

\* The pair carried by a row that another writer inserted.
OobEmbedding == << <<2, 0>>, <<1, 1>> >>

\* Elements of the JSON array.  kind "ok": id and both embeddings present;
\* "noid": no "id" key; "noemb": no "embedding_ada002" key.
SeedObjects ==
    [kind : {"ok"}, id : Ids, emb : SeedEmbeddings]
        \cup [kind : {"noemb"}, id : Ids, emb : {OobEmbedding}]
        \cup [kind : {"noid"}, id : {0}, emb : {OobEmbedding}]

SeedFiles == UNION { [1..n -> SeedObjects] : n \in 0..MaxLen }

VARIABLES
    tableExists,   \* information_schema lists the items table
    table,         \* committed rows of the items table
    seedFile,      \* seed_data.json, parsed: a sequence of objects
    pc,            \* position of main()/seed_data()
    run,           \* number of the current invocation of the script
    engine,        \* "none", "live", "disposed"
    sessions,      \* sessions of seed_data that are open
    i,             \* index of seed_data_object in seed_data_objects
    pending,       \* rows inserted by the loading session, not committed
    err,           \* exception raised out of seed_data, "none" if none
    firstItem,     \* first_item of the verification step
    result,        \* rows fetched by the verification query
    events,        \* what this run did, in order
    tableAtStart,  \* the table's rows when this run began
    hist           \* one summary per finished run

vars == << tableExists, table, seedFile, pc, run, engine, sessions, i,
           pending, err, firstItem, result, events, tableAtStart, hist >>

\* ----------------------------------------------------------------- helpers
Range(s) == { s[k] : k \in DOMAIN s }

IdsOf(rows) == { r.id : r \in rows }

NoItem == [id |-> 0, ada |-> <<0, 0>>, nomic |-> <<0, 0>>, src |-> "none"]

\* The row that the INSERT built from a seed object adds (attrs, lines 44-49).
RowOf(obj) == [id |-> obj.id, ada |-> obj.emb[1], nomic |-> obj.emb[2], src |-> "seed"]

OobRow(id) == [id |-> id, ada |-> OobEmbedding[1], nomic |-> OobEmbedding[2], src |-> "oob"]

Ev(op, k) == [op |-> op, k |-> k]

EventOps(evs) == { evs[k].op : k \in DOMAIN evs }

CountOp(evs, op) == Cardinality({ k \in DOMAIN evs : evs[k].op = op })

\* seed_data_object["id"] and seed_data_object["embedding_ada002"] exist.
HasId(obj) == obj.kind # "noid"

HasEmbeddings(obj) == obj.kind = "ok"

\* Line 31: "if not result.scalar()".
TableMissing_never(exists) == FALSE

TableMissing(exists) == ~exists

\* What a SELECT of the loading session sees: the committed rows and the
\* rows its own open transaction inserted.
Visible(tbl, pend) == tbl \cup Range(pend)

\* Lines 41-42: select(Item).filter(Item.id == id) ... .first() is truthy.
ExistsRow_never(rows, id) == FALSE

ExistsRow_anyRow(rows, id) == rows # {}

ExistsRow(rows, id) == \E r \in rows : r.id = id

\* Line 40: the for loop has run out of objects.
LoopDone_early(k, objs) == k >= Len(objs)

LoopDone(k, objs) == k > Len(objs)

\* Line 49 runs inside the session's open transaction (line 35): the INSERT
\* changes what the session has pending, not the committed table.
TableAfterInsert_autocommit(tbl, row) == tbl \cup {row}

TableAfterInsert(tbl, row) == tbl

\* The store's uniqueness constraint on id, for a row about to be inserted
\* and for a transaction about to be committed.
InsertConflicts(rows, row) == row.id \in IdsOf(rows)

CommitConflicts(tbl, pend) ==
    \/ \E k \in DOMAIN pend : pend[k].id \in IdsOf(tbl)
    \/ \E j, k \in DOMAIN pend : j # k /\ pend[j].id = pend[k].id

\* Line 59: select(Item).order_by(Item.id).limit(1) ... .first().
FirstItem(rows) ==
    IF rows = {} THEN NoItem
    ELSE CHOOSE r \in rows : \A q \in rows : r.id <= q.id

\* Line 66: the query's :embedding parameter.
RefEmbedding_nomic(item) == item.nomic

RefEmbedding(item) == item.ada

\* The <=> operator: cosine distance 1 - cos(a, b).  The distance is kept
\* exactly as the fraction num/den = cos * |cos|, of which it is a strictly
\* decreasing function: 0 when num = den, 1 when num = 0, 2 when num = -den.
Dot(a, b) == a[1] * b[1] + a[2] * b[2]

SignedSquare(x) == IF x >= 0 THEN x * x ELSE -(x * x)

CosineDistance(a, b) == [num |-> SignedSquare(Dot(a, b)), den |-> Dot(a, a) * Dot(b, b)]

DistLeq(d1, d2) == d1.num * d2.den >= d2.num * d1.den

DistIsZero(d) == d.num = d.den

Min(a, b) == IF a <= b THEN a ELSE b

\* Lines 60-68: SELECT id, embedding_ada002 <=> :embedding AS distance
\* FROM items ORDER BY distance LIMIT k.  Rows at equal distance come in any
\* order, so the query has a set of possible answers.
NearestRows(rows, ref, k) ==
    LET n == Min(k, Cardinality(rows))
        Dist(r) == CosineDistance(r.ada, ref)
        picks == { s \in [1..n -> rows] :
                     /\ \A a, b \in 1..n : a # b => s[a] # s[b]
                     /\ \A a, b \in 1..n : a < b => DistLeq(Dist(s[a]), Dist(s[b]))
                     /\ \A a \in 1..n : \A r \in rows \ Range(s) :
                            DistLeq(Dist(s[a]), Dist(r)) }
    IN { [a \in 1..n |-> [id |-> s[a].id, distance |-> Dist(s[a])]] : s \in picks }

\* One finished run, for comparing runs.
Summary ==
    [err |-> err, before |-> tableAtStart, table |-> table,
     inserts |-> CountOp(events, "insert")]

\* -------------------------------------------------------------------- Init
Init ==
    /\ tableExists \in BOOLEAN
    /\ \E pre \in SUBSET Ids :
          table = IF tableExists THEN { OobRow(id) : id \in pre } ELSE {}
    /\ seedFile \in SeedFiles
    /\ pc = "start"
    /\ run = 1
    /\ engine = "none"
    /\ sessions = {}
    /\ i = 0
    /\ pending = << >>
    /\ err = "none"
    /\ firstItem = NoItem
    /\ result = << >>
    /\ events = << >>
    /\ tableAtStart = table
    /\ hist = << >>

\* ----------------------------------------------------------------- actions
\* An exception leaves seed_data: both "async with" blocks close their
\* session, which rolls back what the session had not committed.
Raise(e) ==
    /\ err' = e
    /\ sessions' = {}
    /\ pending' = << >>
    /\ pc' = "raised"

\* main(), lines 75-87: parse the arguments and create the engine.
CreateEngine ==
    /\ pc = "start"
    /\ engine' = "live"
    /\ pc' = "check"
    /\ UNCHANGED << tableExists, table, seedFile, run, sessions, i, pending,
                    err, firstItem, result, events, tableAtStart, hist >>

\* seed_data, lines 24-33: the table-existence check and its early return.
CheckTable ==
    /\ pc = "check"
    /\ IF TableMissing(tableExists)
          THEN /\ events' = events \o << Ev("check", 0), Ev("error_log", 0) >>
               /\ pc' = "returned"
          ELSE /\ events' = Append(events, Ev("check", 0))
               /\ pc' = "open"
    /\ UNCHANGED << tableExists, table, seedFile, run, engine, sessions, i,
                    pending, err, firstItem, result, tableAtStart, hist >>

\* Lines 35-39: open the loading session and read seed_data.json.
OpenSeedFile ==
    /\ pc = "open"
    /\ sessions' = sessions \cup {"load"}
    /\ events' = Append(events, Ev("read", 0))
    /\ i' = 1
    /\ pc' = "loop"
    /\ UNCHANGED << tableExists, table, seedFile, run, engine, pending, err,
                    firstItem, result, tableAtStart, hist >>

\* Lines 40-43: the next object's existence query; "continue" when found.
ExistsQuery ==
    /\ pc = "loop"
    /\ ~LoopDone(i, seedFile)
    /\ IF ~HasId(seedFile[i])
          THEN /\ Raise("KeyError")
               /\ UNCHANGED << i, events >>
          ELSE /\ events' = Append(events, Ev("exists", i))
               /\ IF ExistsRow(Visible(table, pending), seedFile[i].id)
                     THEN i' = i + 1 /\ pc' = "loop"
                     ELSE i' = i /\ pc' = "insert"
               /\ UNCHANGED << sessions, pending, err >>
    /\ UNCHANGED << tableExists, table, seedFile, run, engine, firstItem,
                    result, tableAtStart, hist >>

\* Lines 44-49: build attrs and execute the INSERT.  A row that breaks the
\* uniqueness constraint is refused at once (IntegrityError out of line 49,
\* which no handler covers) or, under a deferred constraint, at commit.
ExecInsert ==
    /\ pc = "insert"
    /\ IF ~HasEmbeddings(seedFile[i])
          THEN /\ Raise("KeyError")
               /\ UNCHANGED << table, i, events >>
          ELSE /\ events' = Append(events, Ev("insert", i))
               /\ \E deferred \in BOOLEAN :
                     IF InsertConflicts(Visible(table, pending), RowOf(seedFile[i]))
                            /\ ~deferred
                        THEN /\ Raise("IntegrityError")
                             /\ UNCHANGED << table, i >>
                        ELSE /\ table' = TableAfterInsert(table, RowOf(seedFile[i]))
                             /\ pending' = Append(pending, RowOf(seedFile[i]))
                             /\ i' = i + 1
                             /\ pc' = "loop"
                             /\ UNCHANGED << sessions, err >>
    /\ UNCHANGED << tableExists, seedFile, run, engine, firstItem, result,
                    tableAtStart, hist >>

\* Lines 50-55: the commit, the absorbed IntegrityError, the end of the
\* loading session and the "seeded successfully" message.
Commit ==
    /\ pc = "loop"
    /\ LoopDone(i, seedFile)
    /\ IF CommitConflicts(table, pending)
          THEN /\ table' = table
               /\ events' = events \o << Ev("commit", 0), Ev("absorbed", 0),
                                         Ev("close_load", 0), Ev("info_log", 0) >>
          ELSE /\ table' = table \cup Range(pending)
               /\ events' = events \o << Ev("commit", 0), Ev("committed", 0),
                                         Ev("close_load", 0), Ev("info_log", 0) >>
    /\ pending' = << >>
    /\ sessions' = sessions \ {"load"}
    /\ pc' = "verify"
    /\ UNCHANGED << tableExists, seedFile, run, engine, i, err, firstItem,
                    result, tableAtStart, hist >>

\* Lines 58-59: open the verification session and read the first item.
SelectFirst ==
    /\ pc = "verify"
    /\ sessions' = sessions \cup {"verify"}
    /\ firstItem' = FirstItem(table)
    /\ events' = Append(events, Ev("first", 0))
    /\ pc' = "query"
    /\ UNCHANGED << tableExists, table, seedFile, run, engine, i, pending,
                    err, result, tableAtStart, hist >>

\* Lines 60-71: first_item.embedding_ada002 (AttributeError when first_item
\* is None), the distance query, the logging of its rows.
DistanceQuery ==
    /\ pc = "query"
    /\ IF firstItem = NoItem
          THEN /\ Raise("AttributeError")
               /\ UNCHANGED << result, events >>
          ELSE /\ \E res \in NearestRows(table, RefEmbedding(firstItem), Limit) :
                     result' = res
               /\ events' = events \o << Ev("query", 0), Ev("close_verify", 0) >>
               /\ sessions' = sessions \ {"verify"}
               /\ pc' = "returned"
               /\ UNCHANGED << pending, err >>
    /\ UNCHANGED << tableExists, table, seedFile, run, engine, i, firstItem,
                    tableAtStart, hist >>

\* main(), line 91: seed_data returned, the engine is disposed, exit 0.
Dispose ==
    /\ pc = "returned"
    /\ engine' = "disposed"
    /\ events' = Append(events, Ev("dispose", 0))
    /\ hist' = Append(hist, Summary)
    /\ pc' = "exited"
    /\ UNCHANGED << tableExists, table, seedFile, run, sessions, i, pending,
                    err, firstItem, result, tableAtStart >>

\* main(), line 89: the exception of seed_data leaves main and asyncio.run;
\* line 91 is not reached and the process ends with a traceback.
Propagate ==
    /\ pc = "raised"
    /\ hist' = Append(hist, Summary)
    /\ pc' = "exited"
    /\ UNCHANGED << tableExists, table, seedFile, run, engine, sessions, i,
                    pending, err, firstItem, result, events, tableAtStart >>

\* Lines 94-98: the script is started again, on the same file and store.
Restart ==
    /\ pc = "exited"
    /\ run < MaxRuns
    /\ run' = run + 1
    /\ pc' = "start"
    /\ engine' = "none"
    /\ i' = 0
    /\ err' = "none"
    /\ firstItem' = NoItem
    /\ result' = << >>
    /\ events' = << >>
    /\ tableAtStart' = table
    /\ UNCHANGED << tableExists, table, seedFile, sessions, pending, hist >>

\* ------------------------------------------------------------- environment
\* Another writer commits a row while the loading session is open.
OutOfBandInsert ==
    /\ pc \in {"loop", "insert"}
    /\ \E id \in Ids \ IdsOf(table) : table' = table \cup {OobRow(id)}
    /\ UNCHANGED << tableExists, seedFile, pc, run, engine, sessions, i,
                    pending, err, firstItem, result, events, tableAtStart, hist >>

\* The connection is lost at a round trip of seed_data.  Lost during the
\* commit, the transaction was committed whole or not at all.
ConnectionLost ==
    /\ pc \in {"check", "loop", "insert", "verify", "query"}
    /\ Raise("ConnectionError")
    /\ IF pc = "loop" /\ LoopDone(i, seedFile)
          THEN /\ events' = Append(events, Ev("commit", 0))
               /\ \E done \in BOOLEAN :
                     table' = IF done /\ ~CommitConflicts(table, pending)
                                 THEN table \cup Range(pending)
                                 ELSE table
          ELSE UNCHANGED << table, events >>
    /\ UNCHANGED << tableExists, seedFile, run, engine, i, firstItem, result,
                    tableAtStart, hist >>

\* ---------------------------------------------------------- specifications
Step ==
    \/ CreateEngine
    \/ CheckTable
    \/ OpenSeedFile
    \/ ExistsQuery
    \/ ExecInsert
    \/ Commit
    \/ SelectFirst
    \/ DistanceQuery
    \/ Dispose
    \/ Propagate

Next == Step \/ Restart

Spec == Init /\ [][Next]_vars

NextEnv == Step \/ OutOfBandInsert \/ ConnectionLost

SpecEnv == Init /\ [][NextEnv]_vars

\* ------------------------------------------------------------------ claims
WellFormed(objs) == \A k \in DOMAIN objs : objs[k].kind = "ok"

FileIds == { seedFile[k].id : k \in DOMAIN seedFile }

DistinctIds(objs) == \A j, k \in DOMAIN objs : j # k => objs[j].id # objs[k].id

Ops == EventOps(events)

\* Rows of the file's identifiers that the table holds.
FileRows == { r \in table : r.id \in FileIds }

\* Rows that this run's INSERT statements were issued for.
IssuedRows == { RowOf(seedFile[events[k].k]) : k \in { j \in DOMAIN events : events[j].op = "insert" } }

\* Rows of this run that are committed.
CommittedByRun == { r \in table \ tableAtStart : r.src = "seed" }

LoadFinished == "close_load" \in Ops

\* C1: for every well-formed seed file and an existing, initially empty
\* table, the first run raises no error and leaves exactly one row per
\* record identifier; the second run raises no error, issues no insert and
\* leaves the table as the first run left it.
C1_SeedTwiceIdempotent ==
    (tableExists /\ WellFormed(seedFile) /\ Len(hist) >= 1 /\ hist[1].before = {})
        => /\ hist[1].err = "none"
           /\ IdsOf(hist[1].table) = FileIds
           /\ \A k \in DOMAIN seedFile :
                 Cardinality({ r \in hist[1].table : r.id = seedFile[k].id }) = 1
           /\ Len(hist) >= 2
                 => /\ hist[2].err = "none"
                    /\ hist[2].inserts = 0
                    /\ hist[2].table = hist[1].table

\* C2: when the table does not exist, seed_data logs an error and returns
\* normally: no exception, the seed file is never read, no existence query,
\* insert or commit is executed, no session is opened, the verification
\* query never runs, and main goes on to dispose the engine.
C2_MissingTableSoftFail ==
    ~tableExists
        => /\ err = "none"
           /\ pc \in {"start", "check", "returned", "exited"}
           /\ Ops \subseteq {"check", "error_log", "dispose"}
           /\ sessions = {} /\ pending = << >> /\ table = {}
           /\ pc \in {"returned", "exited"} => "error_log" \in Ops
           /\ pc = "exited" => engine = "disposed"

C2_Witness ==
    /\ ~tableExists
    /\ pc = "exited"
    /\ Len(seedFile) = MaxLen
    /\ WellFormed(seedFile)

\* C3 as stated: a well-formed file of N records, none of whose identifiers
\* is in the table before the run, leaves exactly N rows of its identifiers
\* once the load is over, also when two records share an identifier.
C3_ExactlyNRows ==
    (WellFormed(seedFile) /\ FileIds \cap IdsOf(tableAtStart) = {} /\ LoadFinished)
        => Cardinality(FileRows) = Len(seedFile)

\* C3 amended: such a file leaves exactly one row per distinct identifier of
\* the file, built from the first record that carries the identifier: N rows
\* when the N identifiers are pairwise distinct, fewer otherwise.
C3_OneRowPerDistinctId ==
    (WellFormed(seedFile) /\ FileIds \cap IdsOf(tableAtStart) = {} /\ LoadFinished)
        => /\ Cardinality(FileRows) = Cardinality(FileIds)
           /\ \A k \in DOMAIN seedFile :
                 (\A j \in 1..(k - 1) : seedFile[j].id # seedFile[k].id)
                     => RowOf(seedFile[k]) \in table
           /\ DistinctIds(seedFile) => Cardinality(FileRows) = Len(seedFile)
           /\ table = tableAtStart \cup FileRows

C3_Witness ==
    /\ WellFormed(seedFile)
    /\ FileIds \cap IdsOf(tableAtStart) = {}
    /\ LoadFinished
    /\ Len(seedFile) = 2
    /\ Cardinality(FileRows) = 1
    /\ tableAtStart # {}

\* C4: at every moment of a run no two rows, committed or inserted by the
\* loading session, share an identifier; every row that was in the table
\* before the run is still there unchanged; and no INSERT is issued for an
\* identifier that was in the table before the run.
C4_ExistingRowsUntouched ==
    /\ Cardinality(IdsOf(Visible(table, pending))) = Cardinality(table) + Len(pending)
    /\ tableAtStart \subseteq table
    /\ \A k \in DOMAIN events :
          events[k].op = "insert" => seedFile[events[k].k].id \notin IdsOf(tableAtStart)

C4_Witness ==
    /\ run = 1
    /\ pc = "exited"
    /\ err = "none"
    /\ Len(seedFile) = 2
    /\ WellFormed(seedFile)
    /\ seedFile[1].id \in IdsOf(tableAtStart)
    /\ seedFile[2].id \notin IdsOf(tableAtStart)
    /\ OobRow(seedFile[1].id) \in table
    /\ RowOf(seedFile[2]) \in table

\* C5: a violation of the identifier-uniqueness constraint by an insert of
\* seed_data never reaches the caller of seed_data.
C5_UniquenessViolationAbsorbed == err # "IntegrityError"

\* C6: the verification query returns at most Limit rows, each with its
\* distance to the ada002 embedding of the lowest-identifier row, in
\* ascending order of distance; the first has distance 0 and no row of the
\* table is closer.
C6_VerifyResult ==
    "query" \in Ops
        => LET ref == FirstItem(table).ada
               RowDist(id) == CosineDistance((CHOOSE r \in table : r.id = id).ada, ref)
           IN /\ Len(result) = Min(Limit, Cardinality(table))
              /\ Len(result) >= 1
              /\ \A k \in DOMAIN result :
                    /\ result[k].id \in IdsOf(table)
                    /\ result[k].distance = RowDist(result[k].id)
              /\ \A j, k \in DOMAIN result :
                    j < k => /\ result[j].id # result[k].id
                             /\ DistLeq(result[j].distance, result[k].distance)
              /\ DistIsZero(result[1].distance)
              /\ \A r \in table : DistLeq(result[1].distance, CosineDistance(r.ada, ref))
              /\ \A r \in table : r.id \notin { result[k].id : k \in DOMAIN result }
                    => DistLeq(result[Len(result)].distance, CosineDistance(r.ada, ref))

C6_Witness ==
    /\ "query" \in Ops
    /\ Cardinality(table) > Limit
    /\ Len(result) = Limit
    /\ result[1].id # FirstItem(table).id
    /\ \E r \in table : ~DistLeq(CosineDistance(r.ada, FirstItem(table).ada), result[2].distance)

\* C7: whenever main has ended after creating the engine, the engine is
\* disposed; and no session of seed_data is open once seed_data has ended.
C7_EngineDisposedOnEveryExit ==
    /\ pc = "exited" => engine = "disposed"
    /\ pc \in {"returned", "raised", "exited"} => sessions = {}

\* C8: the steps of a run come one after another: the table check is the
\* first step; an insert directly follows the existence query of the same
\* record; records are queried once each, in file order; at most one commit
\* is attempted, after every record was queried and after every insert, and
\* exactly one in a run that ends without error on an existing table; the
\* verification starts after the commit attempt and the closing of the
\* loading session; at most one session is open at a time.
C8_StrictOrder ==
    /\ events # << >> => events[1].op = "check"
    /\ CountOp(events, "check") <= 1
    /\ CountOp(events, "commit") <= 1
    /\ Cardinality(sessions) <= 1
    /\ \A k \in DOMAIN events :
          /\ events[k].op = "insert"
                => k > 1 /\ events[k - 1] = Ev("exists", events[k].k)
          /\ events[k].op = "exists"
                => /\ \A j \in 1..(k - 1) :
                         events[j].op = "exists" => events[j].k < events[k].k
                   /\ \A n \in 1..(events[k].k - 1) :
                         \E j \in 1..(k - 1) : events[j] = Ev("exists", n)
          /\ events[k].op = "commit"
                => /\ \A n \in DOMAIN seedFile :
                         \E j \in 1..(k - 1) : events[j] = Ev("exists", n)
                   /\ \A j \in (k + 1)..Len(events) :
                         events[j].op \notin {"exists", "insert", "read", "check"}
          /\ events[k].op \in {"first", "query"}
                => \E c, m \in 1..(k - 1) :
                      /\ c < m
                      /\ events[c].op = "commit"
                      /\ events[m].op = "close_load"
    /\ (pc = "exited" /\ err = "none" /\ tableExists) => CountOp(events, "commit") = 1

C8_Witness ==
    /\ pc = "exited"
    /\ err = "none"
    /\ CountOp(events, "exists") = MaxLen
    /\ CountOp(events, "insert") = MaxLen
    /\ "query" \in Ops

\* C9: the rows of a run are committed together or not at all: at every
\* moment the table holds none of the run's rows, or, the commit having been
\* attempted, every row the run issued an insert for; none after an error
\* left the loop and none after a commit whose violation was absorbed.
C9_AllOrNothing ==
    /\ CommittedByRun = {} \/ (CommittedByRun = IssuedRows /\ "commit" \in Ops)
    /\ "committed" \in Ops => CommittedByRun = IssuedRows
    /\ "absorbed" \in Ops => CommittedByRun = {}
    /\ err \in {"KeyError", "IntegrityError"} => CommittedByRun = {}
    /\ (err = "ConnectionError" /\ "commit" \notin Ops) => CommittedByRun = {}

C9_Witness ==
    /\ pc = "exited"
    /\ "absorbed" \in Ops
    /\ Cardinality(IssuedRows) = MaxLen
    /\ CommittedByRun = {}

\* C10: when the table exists and the load has ended without an error, the
\* verification ends without an error too, whatever rows the table holds.
C10_VerifyNeverFails == (tableExists /\ LoadFinished) => err = "none"

=============================================================================
